---- MODULE Spec2Model ----
(***************************************************************************)
(* The users service of src/main.go: a JSON file (users.json) holding a    *)
(* counter and an id -> User mapping, and five HTTP handlers that each     *)
(* read the whole file, change the decoded store in memory and write the   *)
(* whole file back.  A request is a process; it takes one step per file    *)
(* operation (ReadFile, the open-and-truncate of WriteFile, the write of   *)
(* WriteFile), everything in memory being part of the step it follows.     *)
(***************************************************************************)
EXTENDS Integers, Sequences, FiniteSets, TLC

\* Bounds of the model.
NReq == 2       \* request slots: how many requests may be in flight at once
MaxReqs == 2    \* requests started in one behaviour, when they may overlap
MaxSeqReqs == 3 \* requests started in one behaviour, when served one at a time
NWriters == 3   \* request slots of the server that is sent write requests only
MaxWrites == 3  \* write requests started in one behaviour of that server

VARIABLES
    file,   \* the content of users.json
    req,    \* req[r]: the request in slot r (position, inputs, locals, response)
    nreq,   \* requests started so far (also the wall clock read by time.Now)
    fin,    \* history: the request that returned last, as it returned (until
            \* the next request arrives)
    last,   \* history: the last Create/Update/Delete request that returned
    ids,    \* history: the user_id of every 201 response, in order
    hist,   \* history: the initial file, the kinds of request started, the
            \* counter of the last document the file held, and how many
            \* Create/Update/Delete requests got past their save
    rt      \* the save-then-load experiment on an arbitrary UserStore

vars == <<file, req, fin, nreq, last, ids, hist, rt>>

Slots == 1..NReq

----------------------------------------------------------------------------
(* Strings.  Go strings are byte strings; one of the names below is not    *)
(* valid UTF-8, and encoding/json writes it with the bad byte replaced by   *)
(* U+FFFD.                                                                  *)

InvalidName == "A_xFF"       \* "A\xff"
ReplacedName == "A_uFFFD"    \* "A" followed by U+FFFD

ToValidUTF8(s) == IF s = InvalidName THEN ReplacedName ELSE s

ValidUTF8(s) == ToValidUTF8(s) = s

\* strconv.Itoa
Itoa(n) == ToString(n)

\* The numeric value of a decimal identifier (used by the properties only).
Atoi(s) == CHOOSE n \in 0..(MaxReqs + MaxSeqReqs + 3) : Itoa(n) = s

----------------------------------------------------------------------------
(* Values in memory.                                                        *)

\* time.Time: the wall instant, and whether it carries a monotonic reading.
Time(wall, mono) == [wall |-> wall, mono |-> mono]

User(id, createdAt, displayName, email) ==
    [ID |-> id, CreatedAt |-> createdAt, DisplayName |-> displayName, Email |-> email]

EmptyMap == [k \in {} |-> 0]

\* UserList is a Go map: nil, or a (possibly empty) map.
NilList == [nil |-> TRUE, m |-> EmptyMap]

MapList(m) == [nil |-> FALSE, m |-> m]

UserStore(increment, list) == [Increment |-> increment, List |-> list]

NoUser == User("", Time(0, FALSE), "", "")

NoStore == UserStore(0, NilList)

\* store.List[id], with the found flag
Found(list, id) == (~list.nil) /\ id \in DOMAIN list.m

\* store.List[id] = user on a non-nil map
Assign(list, id, user) ==
    MapList([k \in (DOMAIN list.m) \cup {id} |-> IF k = id THEN user ELSE list.m[k]])

DeleteNothing(list, id) == list

\* delete(store.List, id): a no-op on a nil map and on an absent key
DeleteKey(list, id) ==
    IF list.nil THEN list
    ELSE MapList([k \in (DOMAIN list.m) \ {id} |-> list.m[k]])

IncNothing(store) == store

\* func (store *UserStore) Inc()
Inc(store) == [store EXCEPT !.Increment = @ + 1]

----------------------------------------------------------------------------
(* encoding/json.  A document is what the file holds when it parses.        *)

JSONNull == [null |-> TRUE, obj |-> EmptyMap]

JSONObj(o) == [null |-> FALSE, obj |-> o]

MarshalUserDropEmail(u) ==
    [id |-> ToValidUTF8(u.ID), created_at |-> u.CreatedAt.wall,
     display_name |-> ToValidUTF8(u.DisplayName), email |-> ""]

\* json.Marshal of a User: strings coerced to valid UTF-8, the time written
\* as RFC 3339 with nanoseconds (the wall instant; no monotonic reading).
MarshalUser(u) ==
    [id |-> ToValidUTF8(u.ID), created_at |-> u.CreatedAt.wall,
     display_name |-> ToValidUTF8(u.DisplayName), email |-> ToValidUTF8(u.Email)]

MarshalList(list) ==
    IF list.nil THEN JSONNull
    ELSE JSONObj([k \in {ToValidUTF8(k0) : k0 \in DOMAIN list.m} |->
                    MarshalUser(list.m[CHOOSE k0 \in DOMAIN list.m : ToValidUTF8(k0) = k])])

\* json.Marshal(store)
Marshal(store) == [increment |-> store.Increment, list |-> MarshalList(store.List)]

UnmarshalUser(j) ==
    User(j.id, Time(j.created_at, FALSE), j.display_name, j.email)

\* json.Unmarshal(data, &store): a null (or absent) list leaves the map nil
Unmarshal(doc) ==
    UserStore(doc.increment,
              IF doc.list.null THEN NilList
              ELSE MapList([k \in DOMAIN doc.list.obj |-> UnmarshalUser(doc.list.obj[k])]))

----------------------------------------------------------------------------
(* The file.                                                                *)

Missing == [kind |-> "missing", doc |-> Marshal(NoStore)]
Empty == [kind |-> "empty", doc |-> Marshal(NoStore)]      \* truncated, nothing written
Garbage == [kind |-> "garbage", doc |-> Marshal(NoStore)]  \* bytes that are no JSON document
OkFile(doc) == [kind |-> "ok", doc |-> doc]

ErrNoFile == "open users.json: no such file or directory"
ErrSyntax == "unexpected end of JSON input"
ErrWrite == "write users.json: no space left on device"
ErrOpen == "open users.json: permission denied"
ErrDecode == "render: unable to automatically decode the request content type"
ErrUserNotFound == "user_not_found"

\* func ReadUserStore() (*UserStore, error)
ReadUserStore(f) ==
    IF f.kind = "missing" THEN [err |-> ErrNoFile, store |-> NoStore]
    ELSE IF f.kind # "ok" THEN [err |-> ErrSyntax, store |-> NoStore]
    ELSE [err |-> "", store |-> Unmarshal(f.doc)]

\* os.WriteFile, first half: OpenFile(O_WRONLY|O_CREATE|O_TRUNC)
WriteFileOpen(f) == Empty

WriteFileWriteKeep(f, data, fits) ==
    IF f.kind = "ok" THEN f ELSE OkFile(data)

\* os.WriteFile, second half: the bytes go to offset 0.  On a file that another
\* writer filled since the truncation the result is this document only when it
\* is at least as long as what is there (fits); otherwise a tail is left over.
WriteFileWrite(f, data, fits) ==
    IF f.kind = "empty" \/ fits THEN OkFile(data) ELSE Garbage

\* a write that fails part way leaves a prefix of the document
WriteFileFail(f) == Garbage

----------------------------------------------------------------------------
(* Requests and responses.                                                  *)

Kinds == {"Search", "Create", "Get", "Update", "Delete"}

WriteKinds == {"Create", "Update", "Delete"}

\* The identifiers a path may name.
PathIDs == {Itoa(i) : i \in 1..2}

NoBody == [ok |-> TRUE, DisplayName |-> "", Email |-> ""]

\* A body render.Bind cannot decode (no usable Content-Type, malformed JSON).
BadBody == [ok |-> FALSE, DisplayName |-> "", Email |-> ""]

CreateBodies ==
    {[ok |-> TRUE, DisplayName |-> "A", Email |-> "a@x.com"],
     BadBody}

UpdateBodies ==
    {[ok |-> TRUE, DisplayName |-> "B", Email |-> ""],
     BadBody}

\* The routes of main(): what a client can send.
Requests ==
    {[kind |-> "Search", id |-> "", body |-> NoBody]}
    \cup {[kind |-> "Create", id |-> "", body |-> b] : b \in CreateBodies}
    \cup {[kind |-> k, id |-> i, body |-> NoBody] : k \in {"Get", "Delete"}, i \in PathIDs}
    \cup {[kind |-> "Update", id |-> i, body |-> b] : i \in PathIDs, b \in UpdateBodies}

\* Response bodies.
NoContent == [t |-> "empty"]
EnvelopeJSON(e) == [t |-> "envelope", status |-> e.StatusText, error |-> e.ErrorText]
UserIDJSON(id) == [t |-> "user_id", user_id |-> id]
UserJSON(u) == [t |-> "user", user |-> MarshalUser(u)]
ListJSON(list) == [t |-> "list", list |-> MarshalList(list)]

NoRead == [err |-> "", store |-> NoStore]

NoLast == [kind |-> "", id |-> "", body |-> NoBody, status |-> 0]

Idle ==
    [pc |-> "idle", kind |-> "", id |-> "", body |-> NoBody,
     ctx |-> NoRead, loaded |-> NoRead, user |-> NoUser, store |-> NoStore,
     ctxStatus |-> 0, status |-> 0, respBody |-> NoContent,
     invoked |-> FALSE, writes |-> 0, pre |-> Missing]

\* render.Status(r, status): the status is kept in the request's context
RenderStatus(q, status) == [q EXCEPT !.ctxStatus = status]

\* render.JSON(w, r, v): writes the header with the context's status when one
\* was set (200 otherwise), then the body
RenderJSON(q, v) ==
    IF q.status # 0 THEN q
    ELSE [q EXCEPT !.status = IF q.ctxStatus # 0 THEN q.ctxStatus ELSE 200,
                   !.respBody = v]

\* func ErrInvalidRequest(err error) render.Renderer
ErrInvalidRequest(err) ==
    [Err |-> err, HTTPStatusCode |-> 400, StatusText |-> "Invalid request.",
     ErrorText |-> err]

\* func (e *ErrResponse) Render(w, r) error
ErrResponseRender(q, e) == RenderStatus(q, e.HTTPStatusCode)

\* render.Render(w, r, v): v.Render, then the value is written as JSON
RenderRender(q, e) == RenderJSON(ErrResponseRender(q, e), EnvelopeJSON(e))

\* middleware.Recoverer: a panic in the handler is answered with 500
Recoverer(q) ==
    IF q.status # 0 THEN q ELSE [q EXCEPT !.status = 500, !.respBody = NoContent]

\* net/http when the handler returns: a handler that wrote nothing has
\* answered 200 with an empty body
ServeHTTP(q) ==
    IF q.status # 0 THEN q ELSE [q EXCEPT !.status = 200, !.respBody = NoContent]

\* The handler of request q returns to the server.
Return(q, f) == [ServeHTTP(q) EXCEPT !.pc = "done"]

Active(q) == q.pc # "idle"

Success(q) == q.status \in {200, 201, 204}
----------------------------------------------------------------------------
(* The handlers.  Each is the function from the request q and the file f it *)
(* reads to the request after the step: answered (pc "done"), or holding    *)
(* the changed store and about to save it (pc "save").  The field loaded   *)
(* keeps what the handler's own ReadUserStore returned.                     *)

\* time.Now(): the wall clock advances with the requests; the value carries
\* a monotonic reading
Now == Time(nreq, TRUE)

\* func GetUserCtx(r *http.Request) User
GetUserCtx(q) == q.user

NewUserNoID(id, now, body) == User("", now, body.DisplayName, body.Email)

\* user := User{ID: id, CreatedAt: time.Now(), DisplayName: ..., Email: ...}
NewUser(id, now, body) == User(id, now, body.DisplayName, body.Email)

SetDisplayNameAndEmail(user, body) ==
    [user EXCEPT !.DisplayName = body.DisplayName, !.Email = body.Email]

\* user.DisplayName = request.DisplayName
SetDisplayName(user, body) == [user EXCEPT !.DisplayName = body.DisplayName]

\* func HandleGetUser(w, r)
HandleGetUser(q, f) == Return(RenderJSON(q, UserJSON(GetUserCtx(q))), f)

HandleSearchUsersFirstOnly(q0, f) ==
    LET rd == ReadUserStore(f)
        q == [q0 EXCEPT !.loaded = rd]
    IN  IF rd.err # "" THEN Return(RenderRender(q, ErrInvalidRequest(rd.err)), f)
        ELSE Return(RenderJSON(q, ListJSON(DeleteKey(rd.store.List, "2"))), f)

\* func HandleSearchUsers(w, r)
HandleSearchUsers(q0, f) ==
    LET rd == ReadUserStore(f)
        q == [q0 EXCEPT !.loaded = rd]
    IN  IF rd.err # "" THEN Return(RenderRender(q, ErrInvalidRequest(rd.err)), f)
        ELSE Return(RenderJSON(q, ListJSON(rd.store.List)), f)

HandleCreateUserNoReturn(q0, f, now) ==
    LET rd == ReadUserStore(f)
        q == [q0 EXCEPT !.loaded = rd]
        store == Inc(rd.store)
        id == Itoa(store.Increment)
        user == NewUser(id, now, q.body)
        q1 == IF q.body.ok THEN q ELSE RenderRender(q, ErrInvalidRequest(ErrDecode))
    IN  IF rd.err # "" THEN Return(RenderRender(q, ErrInvalidRequest(rd.err)), f)
        ELSE IF store.List.nil THEN Return(Recoverer(q1), f)
        ELSE [q1 EXCEPT !.user = user,
                        !.store = [store EXCEPT !.List = Assign(@, id, user)],
                        !.pc = "save"]

\* func HandleCreateUser(w, r), up to the call of SaveUserStore.  The
\* assignment store.List[id] = user panics on a nil map.
HandleCreateUser(q0, f, now) ==
    LET rd == ReadUserStore(f)
        q == [q0 EXCEPT !.loaded = rd]
        store == Inc(rd.store)
        id == Itoa(store.Increment)
        user == NewUser(id, now, q.body)
    IN  IF rd.err # "" THEN Return(RenderRender(q, ErrInvalidRequest(rd.err)), f)
        ELSE IF ~q.body.ok THEN Return(RenderRender(q, ErrInvalidRequest(ErrDecode)), f)
        ELSE IF store.List.nil THEN Return(Recoverer(q), f)
        ELSE [q EXCEPT !.user = user,
                       !.store = [store EXCEPT !.List = Assign(@, id, user)],
                       !.pc = "save"]

\* func HandleUpdateUser(w, r), up to the call of SaveUserStore
HandleUpdateUser(q0, f) ==
    LET rd == ReadUserStore(f)
        q == [q0 EXCEPT !.loaded = rd]
        user == SetDisplayName(GetUserCtx(q), q.body)
    IN  IF rd.err # "" THEN Return(RenderRender(q, ErrInvalidRequest(rd.err)), f)
        ELSE IF ~q.body.ok THEN Return(RenderRender(q, ErrInvalidRequest(ErrDecode)), f)
        ELSE IF rd.store.List.nil THEN Return(Recoverer(q), f)
        ELSE [q EXCEPT !.user = user,
                       !.store = [rd.store EXCEPT !.List = Assign(@, user.ID, user)],
                       !.pc = "save"]

HandleDeleteUserDecrement(q0, f) ==
    LET rd == ReadUserStore(f)
        q == [q0 EXCEPT !.loaded = rd]
    IN  IF rd.err # "" THEN Return(RenderRender(q, ErrInvalidRequest(rd.err)), f)
        ELSE [q EXCEPT !.store = [rd.store EXCEPT !.List = DeleteKey(@, GetUserCtx(q).ID),
                                                  !.Increment = @ - 1],
                       !.pc = "save"]

HandleDeleteUserChecked(q0, f) ==
    LET rd == ReadUserStore(f)
        q == [q0 EXCEPT !.loaded = rd]
    IN  IF rd.err # "" THEN Return(RenderRender(q, ErrInvalidRequest(rd.err)), f)
        ELSE IF ~Found(rd.store.List, GetUserCtx(q).ID)
             THEN Return(RenderRender(q, ErrInvalidRequest(ErrUserNotFound)), f)
        ELSE [q EXCEPT !.store = [rd.store EXCEPT !.List = DeleteKey(@, GetUserCtx(q).ID)],
                       !.pc = "save"]

\* func HandleDeleteUser(w, r), up to the call of SaveUserStore
HandleDeleteUser(q0, f) ==
    LET rd == ReadUserStore(f)
        q == [q0 EXCEPT !.loaded = rd]
    IN  IF rd.err # "" THEN Return(RenderRender(q, ErrInvalidRequest(rd.err)), f)
        ELSE [q EXCEPT !.store = [rd.store EXCEPT !.List = DeleteKey(@, GetUserCtx(q).ID)],
                       !.pc = "save"]

UserCtxStepNoCheck(q, f) ==
    LET rd == ReadUserStore(f)
        q1 == [q EXCEPT !.ctx = rd]
    IN  IF rd.err # "" THEN Return(RenderRender(q1, ErrInvalidRequest(rd.err)), f)
        ELSE [q1 EXCEPT !.user = IF Found(rd.store.List, q.id)
                                  THEN rd.store.List.m[q.id] ELSE NoUser,
                        !.invoked = TRUE, !.pc = "handler"]

\* func UserCtx(next http.Handler) http.Handler
UserCtxStep(q, f) ==
    LET rd == ReadUserStore(f)
        q1 == [q EXCEPT !.ctx = rd]
    IN  IF rd.err # "" THEN Return(RenderRender(q1, ErrInvalidRequest(rd.err)), f)
        ELSE IF ~Found(rd.store.List, q.id)
             THEN Return(RenderRender(q1, ErrInvalidRequest(ErrUserNotFound)), f)
        ELSE [q1 EXCEPT !.user = rd.store.List.m[q.id], !.invoked = TRUE,
                        !.pc = "handler"]

\* What each handler does once SaveUserStore has returned nil.
AfterSave(q) ==
    IF q.kind = "Create"
    THEN RenderJSON(RenderStatus(q, 201), UserIDJSON(q.user.ID))
    ELSE RenderStatus(q, 204)

\* SaveUserStore returned err: render.Render(w, r, ErrInvalidRequest(err))
SaveFailed(q, err, f) == Return(RenderRender(q, ErrInvalidRequest(err)), f)

----------------------------------------------------------------------------
(* The state machine.                                                       *)

User1 == User("1", Time(0, FALSE), "A", "a@x.com")
User2 == User("2", Time(0, FALSE), "B", "b@x.com")

\* What users.json may hold when the server starts: nothing (no file), no
\* JSON, a document without a list, an empty store, and stores left by
\* earlier requests.  The last one is left by requests that overlapped: on
\* {1, {"1"}} an Update of 1 loads, a Create saves {2, {"1", "2"}}, an Update
\* of 2 resolves its user, the first Update saves its snapshot {1, {"1"}},
\* and the second Update loads that and puts user 2 back: {1, {"1", "2"}}.
InitStores ==
    {UserStore(0, NilList),
     UserStore(0, MapList(EmptyMap)),
     UserStore(1, MapList([k \in {"1"} |-> User1])),
     UserStore(2, MapList([k \in {"1", "2"} |-> IF k = "1" THEN User1 ELSE User2])),
     UserStore(1, MapList([k \in {"1", "2"} |-> IF k = "1" THEN User1 ELSE User2]))}

InitFiles == {Missing, Garbage} \cup {OkFile(Marshal(s)) : s \in InitStores}

RTOff == [pc |-> "off", s |-> NoStore, out |-> NoRead]

\* The histories of a server that starts on file f.
NoHist(f) == [init |-> f, kinds |-> {}, inc |-> f.doc.increment, saved |-> 0]

\* The handler of q got past its save: it selected its success status.
Saved(q) == q.pc = "done" /\ q.ctxStatus \in {201, 204}

Init ==
    /\ file \in InitFiles
    /\ req = [r \in Slots |-> Idle]
    /\ fin = Idle
    /\ nreq = 0
    /\ last = NoLast
    /\ ids = <<>>
    /\ hist = NoHist(file)
    /\ rt = RTOff

\* The request in slot r becomes q and the file becomes f; a request that
\* has returned leaves its slot and enters the histories.
Commit(r, q, f) ==
    /\ req' = [req EXCEPT ![r] = IF q.pc = "done" THEN Idle ELSE q]
    /\ fin' = IF q.pc = "done" THEN q ELSE fin
    /\ file' = f
    /\ last' = IF q.pc = "done" /\ q.kind \in WriteKinds
               THEN [kind |-> q.kind, id |-> q.id, body |-> q.body,
                     status |-> q.status]
               ELSE last
    /\ ids' = IF q.pc = "done" /\ q.kind = "Create" /\ q.status = 201
              THEN Append(ids, q.respBody.user_id)
              ELSE ids
    /\ hist' = [hist EXCEPT !.inc = IF f.kind = "ok" THEN f.doc.increment ELSE @,
                             !.saved = IF Saved(q) THEN @ + 1 ELSE @]
    /\ UNCHANGED <<nreq, rt>>

\* The router accepts request c into the lowest free slot: the routes under
\* /{id} run UserCtx first.
Start(r, c) ==
    /\ ~Active(req[r])
    /\ \A s \in DOMAIN req : s < r => Active(req[s])
    /\ req' = [req EXCEPT ![r] =
                 [Idle EXCEPT !.pc = IF c.kind \in {"Search", "Create"}
                                     THEN "handler" ELSE "ctx",
                              !.kind = c.kind, !.id = c.id, !.body = c.body,
                              !.pre = file]]
    /\ nreq' = nreq + 1
    /\ hist' = [hist EXCEPT !.kinds = @ \cup {c.kind}]
    /\ fin' = Idle
    /\ UNCHANGED <<file, last, ids, rt>>

Arrive(r) ==
    /\ nreq < MaxReqs
    /\ \E c \in Requests : Start(r, c)

\* The same, on a server that is given one request at a time.
ArriveAlone(r) ==
    /\ nreq < MaxSeqReqs
    /\ \A t \in DOMAIN req : ~Active(req[t])
    /\ \E c \in Requests : Start(r, c)

ResolveUser(r) ==
    /\ req[r].pc = "ctx"
    /\ Commit(r, UserCtxStep(req[r], file), file)

GetUser(r) ==
    /\ req[r].pc = "handler" /\ req[r].kind = "Get"
    /\ Commit(r, HandleGetUser(req[r], file), file)

SearchUsers(r) ==
    /\ req[r].pc = "handler" /\ req[r].kind = "Search"
    /\ Commit(r, HandleSearchUsers(req[r], file), file)

CreateUser(r) ==
    /\ req[r].pc = "handler" /\ req[r].kind = "Create"
    /\ Commit(r, HandleCreateUser(req[r], file, Now), file)

UpdateUser(r) ==
    /\ req[r].pc = "handler" /\ req[r].kind = "Update"
    /\ Commit(r, HandleUpdateUser(req[r], file), file)

DeleteUser(r) ==
    /\ req[r].pc = "handler" /\ req[r].kind = "Delete"
    /\ Commit(r, HandleDeleteUser(req[r], file), file)

\* SaveUserStore, os.WriteFile opening the file: it fails (the file is left
\* as it was) or truncates it.
SaveOpen(r) ==
    /\ req[r].pc = "save"
    /\ \E ok \in BOOLEAN :
         LET q == [req[r] EXCEPT !.writes = @ + 1]
         IN  IF ok THEN Commit(r, [q EXCEPT !.pc = "write"], WriteFileOpen(file))
             ELSE Commit(r, SaveFailed(q, ErrOpen, file), file)

\* SaveUserStore, os.WriteFile writing the document: it fails part way, or
\* the bytes are written and the handler answers.
SaveWrite(r) ==
    /\ req[r].pc = "write"
    /\ \E ok \in BOOLEAN, fits \in IF file.kind = "empty" THEN {TRUE} ELSE BOOLEAN :
         LET f == IF ok THEN WriteFileWrite(file, Marshal(req[r].store), fits)
                  ELSE WriteFileFail(file)
         IN  IF ok THEN Commit(r, Return(AfterSave(req[r]), f), f)
             ELSE Commit(r, SaveFailed(req[r], ErrWrite, f), f)

Step(r) ==
    \/ ResolveUser(r)
    \/ GetUser(r)
    \/ SearchUsers(r)
    \/ CreateUser(r)
    \/ UpdateUser(r)
    \/ DeleteUser(r)
    \/ SaveOpen(r)
    \/ SaveWrite(r)

\* Requests arrive at any time and overlap.
Next == \E r \in Slots : Arrive(r) \/ Step(r)

Spec == Init /\ [][Next]_vars

\* Requests arrive one after another: none while another is in flight.
NextSeq == \E r \in Slots : ArriveAlone(r) \/ Step(r)

SpecSeq == Init /\ [][NextSeq]_vars

----------------------------------------------------------------------------
(* The server on a well-formed file, sent Create, Update and Delete         *)
(* requests (with bodies that decode) that overlap three at a time.         *)

WriteRequests == {c \in Requests : c.kind \in WriteKinds /\ c.body.ok}

\* The counter of store s is at least the numeric value of every key.
WellFormed(s) ==
    (~s.List.nil) /\ \A k \in DOMAIN s.List.m : Atoi(k) <= s.Increment

InitWrites ==
    /\ file \in {OkFile(Marshal(s)) : s \in {t \in InitStores : WellFormed(t)}}
    /\ req = [r \in 1..NWriters |-> Idle]
    /\ fin = Idle
    /\ nreq = 0
    /\ last = NoLast
    /\ ids = <<>>
    /\ hist = NoHist(file)
    /\ rt = RTOff

ArriveWrite(r) ==
    /\ nreq < MaxWrites
    /\ \E c \in WriteRequests : Start(r, c)

WriteStep(r) ==
    \/ ResolveUser(r)
    \/ CreateUser(r)
    \/ UpdateUser(r)
    \/ DeleteUser(r)
    \/ SaveOpen(r)
    \/ SaveWrite(r)

NextWrites == \E r \in 1..NWriters : ArriveWrite(r) \/ WriteStep(r)

SpecWrites == InitWrites /\ [][NextWrites]_vars

----------------------------------------------------------------------------
(* Save then load, on any store.                                            *)

RTNames == {"A", InvalidName}

RTUsers ==
    {User(i, Time(1, mono), n, "a@x.com") : i \in PathIDs, mono \in BOOLEAN, n \in RTNames}

RTLists ==
    {NilList} \cup
    {MapList(m) : m \in UNION {[K -> RTUsers] : K \in SUBSET PathIDs}}

RTStores == {UserStore(n, l) : n \in 0..1, l \in RTLists}

InitRT ==
    /\ file = OkFile(Marshal(UserStore(0, MapList(EmptyMap))))
    /\ req = [r \in Slots |-> Idle]
    /\ fin = Idle
    /\ nreq = 0
    /\ last = NoLast
    /\ ids = <<>>
    /\ hist = NoHist(file)
    /\ rt \in {[pc |-> "start", s |-> s, out |-> NoRead] : s \in RTStores}

\* SaveUserStore(s), with nothing else running
RTSave ==
    /\ rt.pc = "start"
    /\ \E ok \in BOOLEAN :
         /\ file' = IF ok THEN WriteFileWrite(WriteFileOpen(file), Marshal(rt.s), TRUE)
                    ELSE WriteFileFail(file)
         /\ rt' = [rt EXCEPT !.pc = IF ok THEN "saved" ELSE "failed"]
    /\ UNCHANGED <<req, fin, nreq, last, ids, hist>>

\* ReadUserStore()
RTLoad ==
    /\ rt.pc = "saved"
    /\ rt' = [rt EXCEPT !.pc = "loaded", !.out = ReadUserStore(file)]
    /\ UNCHANGED <<file, req, fin, nreq, last, ids, hist>>

NextRT == RTSave \/ RTLoad

SpecRT == InitRT /\ [][NextRT]_vars

----------------------------------------------------------------------------
(* Properties.                                                              *)

EmptyStoreFile == OkFile(Marshal(UserStore(0, MapList(EmptyMap))))

NotFoundEnvelope == EnvelopeJSON(ErrInvalidRequest(ErrUserNotFound))

InFlight == Cardinality({r \in DOMAIN req : Active(req[r])})

\* C1: Create requests served one after another on a file that held counter 0
\* and an empty mapping return identifiers that are pairwise distinct and
\* strictly increasing in numeric value; when every Create so far was answered
\* 201, the k-th returned the decimal string of k.
C1_CreateIdsIncrease ==
    (hist.init = EmptyStoreFile /\ hist.kinds \subseteq {"Create"}) =>
        /\ \A i, j \in 1..Len(ids) : i < j => Atoi(ids[i]) < Atoi(ids[j])
        /\ (Len(ids) = nreq - InFlight) => \A k \in 1..Len(ids) : ids[k] = Itoa(k)

C1_Witness ==
    /\ hist.init = EmptyStoreFile
    /\ hist.kinds = {"Create"}
    /\ Len(ids) >= 2
    /\ Len(ids) = nreq

\* C2: a Create served alone whose load, decode and save succeed (it answers
\* 201) on a file with counter n and mapping M leaves counter n+1 and M plus
\* one entry under str(n+1) carrying that id and the body's display name and
\* email, every entry of M unchanged, and answers {"user_id": str(n+1)}.
C2_CreateAddsOneEntry ==
        LET q == fin
            M == q.pre.doc.list.obj
            id == Itoa(q.pre.doc.increment + 1)
        IN  (q.pc = "done" /\ q.kind = "Create" /\ q.status = 201) =>
                /\ file.kind = "ok"
                /\ file.doc.increment = q.pre.doc.increment + 1
                /\ DOMAIN file.doc.list.obj = (DOMAIN M) \cup {id}
                /\ file.doc.list.obj[id].id = id
                /\ file.doc.list.obj[id].display_name = q.body.DisplayName
                /\ file.doc.list.obj[id].email = q.body.Email
                /\ \A k \in DOMAIN M : file.doc.list.obj[k] = M[k]
                /\ q.respBody = UserIDJSON(id)

\* C3: an Update of an existing identifier x served alone, once saved, has
\* changed only the display name of record x (id, email, creation time, the
\* counter and every other record are as before), and a Get of x that follows
\* it is answered 200 with that record.
C3_UpdateChangesOnlyDisplayName ==
        LET q == fin
            x == q.id
            M == q.pre.doc.list.obj
        IN  /\ (q.kind = "Update" /\ Saved(q)) =>
                /\ q.pre.kind = "ok" /\ x \in DOMAIN M
                /\ file.kind = "ok"
                /\ file.doc.increment = q.pre.doc.increment
                /\ DOMAIN file.doc.list.obj = DOMAIN M
                /\ \A k \in (DOMAIN M) \ {x} : file.doc.list.obj[k] = M[k]
                /\ file.doc.list.obj[x] = [M[x] EXCEPT !.display_name = q.body.DisplayName]
            /\ (q.pc = "done" /\ q.kind = "Get" /\ last.kind = "Update"
                    /\ last.id = x /\ Success(last)) =>
                /\ q.status = 200
                /\ q.respBody = [t |-> "user", user |-> file.doc.list.obj[x]]
                /\ q.respBody.user.display_name = last.body.DisplayName

C3_Witness ==
        /\ fin.pc = "done" /\ fin.kind = "Get" /\ fin.status = 200
        /\ last.kind = "Update" /\ last.id = fin.id /\ Success(last)
        /\ hist.init.doc.list.obj[fin.id].display_name # last.body.DisplayName
        /\ Cardinality(DOMAIN file.doc.list.obj) >= 2

\* C4: a Delete of an existing identifier x served alone, once saved, has
\* removed key x and nothing else (the other entries and the counter are as
\* before), and a Get of x that follows it with no write request in between
\* is answered 400 with the envelope carrying user_not_found.
C4_DeleteRemovesRecord ==
        LET q == fin
            x == q.id
            M == q.pre.doc.list.obj
        IN  /\ (q.kind = "Delete" /\ Saved(q)) =>
                /\ q.pre.kind = "ok" /\ x \in DOMAIN M
                /\ file.kind = "ok"
                /\ file.doc.increment = q.pre.doc.increment
                /\ DOMAIN file.doc.list.obj = (DOMAIN M) \ {x}
                /\ \A k \in (DOMAIN M) \ {x} : file.doc.list.obj[k] = M[k]
            /\ (q.pc = "done" /\ q.kind = "Get" /\ last.kind = "Delete"
                    /\ last.id = x /\ Success(last)) =>
                /\ q.status = 400
                /\ q.respBody = NotFoundEnvelope

C4_Witness ==
        /\ fin.pc = "done" /\ fin.kind = "Get" /\ fin.status = 400
        /\ last.kind = "Delete" /\ last.id = fin.id /\ Success(last)
        /\ file.kind = "ok" /\ DOMAIN file.doc.list.obj # {}

\* C5: for Get, Update and Delete, when the path identifier is not a key of
\* the mapping UserCtx loaded, the answer is 400 with the envelope carrying
\* user_not_found, the wrapped handler is not invoked and the request writes
\* nothing; when it is a key, a Get is answered 200 with the record under it.
C5_IdentifierResolution ==
        LET q == fin
        IN  (q.pc = "done" /\ q.kind \in {"Get", "Update", "Delete"} /\ q.ctx.err = "") =>
                IF Found(q.ctx.store.List, q.id)
                THEN q.kind = "Get" =>
                        /\ q.status = 200
                        /\ q.respBody = UserJSON(q.ctx.store.List.m[q.id])
                ELSE /\ q.status = 400
                     /\ q.respBody = NotFoundEnvelope
                     /\ ~q.invoked
                     /\ q.writes = 0

C5_Witness ==
        /\ fin.pc = "done" /\ fin.kind = "Delete" /\ fin.ctx.err = ""
        /\ ~Found(fin.ctx.store.List, fin.id)
        /\ fin.ctx.store.List.m # EmptyMap
        /\ fin.status = 400

\* C6: an Update and a Delete whose load, decode and save succeed are answered
\* with status 204 and an empty body: the status the handler selects is the
\* status written to the client.
C6_UpdateDeleteAnswer204 ==
        LET q == fin
        IN  (q.kind \in {"Update", "Delete"} /\ Saved(q)) =>
                /\ q.status = 204
                /\ q.respBody = NoContent

\* C7: every request that does not succeed is answered 400 with the envelope
\* {status: "Invalid request.", error: <message>}, whatever the file holds
\* (a document without a list included); no request ends in another status.
C7_FailuresAnswer400 ==
        LET q == fin
        IN  (q.pc = "done" /\ ~Success(q)) =>
                /\ q.status = 400
                /\ q.respBody.t = "envelope"
                /\ q.respBody.status = "Invalid request."

\* C8 as claimed: a request answered with the error envelope, served alone,
\* has left the file as it was before the request, whatever failed (the load,
\* the decode, the lookup or the save), and has not retried the save.
C8_ErrorLeavesStore ==
        LET q == fin
        IN  (q.pc = "done" /\ q.status = 400) =>
                /\ file = q.pre
                /\ q.writes <= 1

\* C8 as amended: a request answered with the error envelope because the load
\* failed, the body could not be decoded or the identifier was not found has
\* not written the file, which is as it was before the request; a request
\* whose save failed called WriteFile once (and may have left the file
\* truncated).
C8_ErrorBeforeSaveLeavesStore ==
        LET q == fin
        IN  (q.pc = "done" /\ q.status = 400) =>
                /\ q.writes <= 1
                /\ q.respBody.error \in {ErrNoFile, ErrSyntax, ErrDecode, ErrUserNotFound} =>
                        (file = q.pre /\ q.writes = 0)

C8_Witness ==
        /\ fin.pc = "done" /\ fin.kind = "Create" /\ fin.status = 400
        /\ fin.respBody.error = ErrDecode
        /\ file = fin.pre /\ file.kind = "ok" /\ file.doc.increment > 0

\* C9 as claimed: SaveUserStore(s) that succeeds followed by ReadUserStore
\* returns s: the same counter and the same User under the same keys.
C9_RoundTripIdentity ==
    rt.pc = "loaded" => (rt.out.err = "" /\ rt.out.store = rt.s)

ValidUTF8User(u) == ValidUTF8(u.ID) /\ ValidUTF8(u.DisplayName) /\ ValidUTF8(u.Email)

ValidUTF8Store(s) ==
    \A k \in DOMAIN s.List.m : ValidUTF8(k) /\ ValidUTF8User(s.List.m[k])

\* C9 as amended: for every store s whose keys and strings are valid UTF-8,
\* SaveUserStore(s) that succeeds followed by ReadUserStore returns the same
\* counter and a mapping with the same keys (nil when s.List is nil), the User
\* under each key having the same id, display name, email and creation
\* instant (the monotonic clock reading of a time is not kept).
C9_RoundTripValidUTF8 ==
    (rt.pc = "loaded" /\ ValidUTF8Store(rt.s)) =>
        /\ rt.out.err = ""
        /\ rt.out.store.Increment = rt.s.Increment
        /\ rt.out.store.List.nil = rt.s.List.nil
        /\ DOMAIN rt.out.store.List.m = DOMAIN rt.s.List.m
        /\ \A k \in DOMAIN rt.s.List.m :
             LET u == rt.s.List.m[k]
                 v == rt.out.store.List.m[k]
             IN  /\ v.ID = u.ID
                 /\ v.DisplayName = u.DisplayName
                 /\ v.Email = u.Email
                 /\ v.CreatedAt.wall = u.CreatedAt.wall

C9_Witness ==
    /\ rt.pc = "loaded"
    /\ ValidUTF8Store(rt.s)
    /\ Cardinality(DOMAIN rt.s.List.m) = 2
    /\ rt.s.Increment = 1

\* C10: whatever requests run and however they overlap, starting from a file
\* in which every key is the id of its User, every key of the persisted
\* mapping is the id of the User stored under it.
C10_KeyIsUserID ==
    file.kind = "ok" =>
        \A k \in DOMAIN file.doc.list.obj : file.doc.list.obj[k].id = k

C10_Witness ==
    /\ file.kind = "ok"
    /\ Len(ids) >= 1
    /\ ids[1] \in DOMAIN file.doc.list.obj
    /\ last.kind = "Update" /\ Success(last)
    /\ InFlight = 0

\* The counter of file f is at least the numeric value of every key in it.
CounterCoversKeys(f) ==
    f.kind = "ok" => \A k \in DOMAIN f.doc.list.obj : Atoi(k) <= f.doc.increment

\* C11: at every point of every execution, requests overlapping or not, that
\* starts on a file whose counter covers its keys, the counter in the file is
\* at least the numeric value of every identifier a Create has returned with
\* 201.
C11_CounterCoversReturnedIds ==
    (CounterCoversKeys(hist.init) /\ file.kind = "ok") =>
        \A k \in 1..Len(ids) : Atoi(ids[k]) <= file.doc.increment

\* C12: in every execution, Create, Update and Delete requests overlapping or
\* not, no two Create requests answered 201 return the same user_id.
C12_ReturnedIdsUnique ==
    CounterCoversKeys(hist.init) =>
        \A i, j \in 1..Len(ids) : i # j => ids[i] # ids[j]

\* The store the server started on.
InitStore == Unmarshal(hist.init.doc)

\* C13: lost update.  Two Create requests and nothing else have run, both
\* were answered 201, and the one that saved last had loaded the file as it
\* was before the other's save (the snapshot the other loaded too): then both
\* returned the same user_id, and the file holds the later save only, the
\* initial mapping plus one record (the later Create's) under a counter that
\* advanced once, so the earlier Create's record is gone though its client
\* was told 201.
C13_LaterSaveWins ==
    (/\ hist.kinds = {"Create"} /\ nreq = 2 /\ InFlight = 0
     /\ Len(ids) = 2
     /\ hist.init.kind = "ok" /\ file.kind = "ok"
     /\ fin.loaded.store = InitStore) =>
        /\ hist.saved = 2
        /\ ids[1] = ids[2]
        /\ file.doc = Marshal(fin.store)
        /\ file.doc.increment = InitStore.Increment + 1
        /\ DOMAIN file.doc.list.obj = (DOMAIN InitStore.List.m) \cup {ids[2]}
        /\ file.doc.list.obj[ids[2]] = MarshalUser(fin.user)

\* The interleaving exists: two Creates loaded the same snapshot, both saved
\* and were answered 201, and one record was added, not two.
C13_Witness ==
    /\ hist.kinds = {"Create"} /\ nreq = 2 /\ InFlight = 0
    /\ Len(ids) = 2 /\ ids[1] = ids[2]
    /\ hist.saved = 2
    /\ hist.init.kind = "ok" /\ file.kind = "ok"
    /\ fin.loaded.store = InitStore
    /\ Cardinality(DOMAIN file.doc.list.obj) = Cardinality(DOMAIN InitStore.List.m) + 1
    /\ fin.status = 201

\* A step of the request in slot r that is a Search, a Get or the identifier
\* resolution of any request.
ReadOnlyStep(r) ==
    /\ Active(req[r])
    /\ req'[r] # req[r]
    /\ req[r].kind \in {"Search", "Get"} \/ req[r].pc = "ctx"

\* C14: every step of a Search, of a Get and of the identifier resolution of
\* any request leaves users.json as it is (and the request has called
\* WriteFile no time), whatever other requests are in flight; a Search that
\* loads the file is answered 200 with the whole mapping of the store it
\* loaded: the same keys, every record.
C14_SearchGetReadOnly ==
    [][\A r \in DOMAIN req :
         ReadOnlyStep(r) =>
            /\ file' = file
            /\ req[r].writes = 0 /\ req'[r].writes = 0
            /\ (req[r].kind = "Search" /\ file.kind = "ok") =>
                  /\ fin'.kind = "Search" /\ fin'.pc = "done"
                  /\ fin'.status = 200
                  /\ fin'.respBody = ListJSON(Unmarshal(file.doc).List)
                  /\ fin'.respBody.list = file.doc.list]_vars

\* A Search that was answered with both records of a file that a Create
\* changed while the Search was in flight.
C14_Witness ==
    /\ fin.pc = "done" /\ fin.kind = "Search" /\ fin.status = 200
    /\ fin.writes = 0
    /\ file.kind = "ok" /\ fin.respBody.list = file.doc.list
    /\ Cardinality(DOMAIN fin.respBody.list.obj) = 2
    /\ fin.pre # file /\ last.kind = "Create"

\* C15: in every execution, write requests overlapping or not, each save that
\* succeeds leaves in the file a counter that is at least the counter of the
\* document the file held last before that save.
C15_CounterMonotonic ==
    [][(CounterCoversKeys(hist.init) /\ file' # file /\ file'.kind = "ok") =>
          file'.doc.increment >= hist.inc]_vars

\* C16: in every execution the mapping an Update is about to save, and the
\* mapping it has saved, has the keys of the mapping its handler loaded, no
\* more: a record that a Delete removed between the Update's identifier
\* resolution and the Update's own load is not put back.
C16_UpdateKeepsKeySet ==
    /\ \A r \in DOMAIN req :
         (req[r].kind = "Update" /\ req[r].pc \in {"save", "write"}) =>
            DOMAIN req[r].store.List.m = DOMAIN req[r].loaded.store.List.m
    /\ (fin.kind = "Update" /\ Saved(fin)) =>
            DOMAIN fin.store.List.m = DOMAIN fin.loaded.store.List.m

\* C17: in every reachable state, under any interleaving of three or more
\* Create, Update and Delete requests on a file whose counter is at least the
\* numeric value of every key, the counter in the file is at least the
\* numeric value of every key in the file.
C17_CounterCoversPersistedKeys ==
    CounterCoversKeys(hist.init) => CounterCoversKeys(file)

\* C18: when Create, Update and Delete requests are served one after another,
\* an identifier returned by a Create is not returned by a later Create, also
\* after its record was deleted; an Update and a Delete that saved have left
\* the counter in the file as it was before the request.
C18_IdsNeverReused ==
    /\ \A i, j \in 1..Len(ids) : i < j => ids[j] # ids[i]
    /\ (fin.kind \in {"Update", "Delete"} /\ Saved(fin)) =>
            /\ file.kind = "ok"
            /\ file.doc.increment = fin.pre.doc.increment

\* Create, then Delete of the identifier it returned, then Create: the second
\* Create returned another identifier.
C18_Witness ==
    /\ nreq = 3 /\ InFlight = 0 /\ hist.saved = 3
    /\ hist.kinds = {"Create", "Delete"}
    /\ fin.kind = "Create" /\ fin.status = 201
    /\ Len(ids) = 2
    /\ file.kind = "ok"
    /\ ids[1] \notin DOMAIN file.doc.list.obj
    /\ ids[2] \in DOMAIN file.doc.list.obj

\* C19: a Delete whose identifier was resolved but is not a key of the mapping
\* its handler loads (another Delete of it completed in between) saves the
\* counter and the mapping it loaded, unchanged, and is answered with success,
\* not with the not-found envelope.
C19_DeleteAbsentKeyNoOp ==
    /\ \A r \in DOMAIN req :
         (/\ req[r].kind = "Delete" /\ req[r].pc \in {"save", "write"}
          /\ ~Found(req[r].loaded.store.List, req[r].user.ID)) =>
            /\ req[r].loaded.err = ""
            /\ req[r].store = req[r].loaded.store
    /\ (/\ fin.kind = "Delete" /\ fin.pc = "done" /\ fin.invoked
        /\ fin.loaded.err = ""
        /\ ~Found(fin.loaded.store.List, fin.user.ID)) =>
            /\ fin.store = fin.loaded.store
            /\ fin.respBody # NotFoundEnvelope
            /\ fin.writes = 1
            /\ Saved(fin) => Success(fin)
            /\ (Saved(fin) /\ InFlight = 0 /\ file.kind = "ok") =>
                    file.doc = Marshal(fin.loaded.store)

\* Two overlapping Deletes of the same identifier, and nothing else, both got
\* past their save and were answered with success; the second had resolved the
\* identifier before the first saved and loaded the mapping after.
C19_Witness ==
    /\ hist.kinds = {"Delete"} /\ nreq = 2 /\ InFlight = 0
    /\ hist.saved = 2
    /\ fin.kind = "Delete" /\ Saved(fin) /\ Success(fin)
    /\ Found(fin.ctx.store.List, fin.id)
    /\ ~Found(fin.loaded.store.List, fin.id)
    /\ file.kind = "ok" /\ file.doc = Marshal(fin.loaded.store)
    /\ file # hist.init
====
